---- MODULE Spec2Model ----
(***************************************************************************)
(* Model of the TestCase controller of provider-stormforge                 *)
(* (internal/controller/testcase/testcase.go): the forge CLI client        *)
(* (ping / exists / create), connector.Connect, and the external client's  *)
(* Observe / Create / Delete as driven by the managed reconciler that      *)
(* Setup registers.                                                        *)
(***************************************************************************)
EXTENDS Naturals, Sequences, FiniteSets, TLC

VARIABLES
    remote,    \* test cases present in the external system: set of <<org, name>>
    pc,        \* per managed resource: position of its reconciliation pass
    deleted,   \* per managed resource: marked for removal (deletion timestamp set)
    handle,    \* per managed resource: the external client Connect returned
    obs,       \* per managed resource: what Observe returned in this pass
    result,    \* per managed resource: how the last pass ended ("" while none / running)
    calls,     \* per managed resource: forge commands run during the current pass
    out,       \* per managed resource: lines printed during the current pass
    data,      \* per managed resource: credential bytes Connect extracted in this pass
    cancelled, \* per managed resource: the context of the current pass is cancelled
    details,   \* per managed resource: ConnectionDetails the last handler returned
    fin,       \* exists() applied to a drawn command outcome: the input
    fout       \* exists() applied to a drawn command outcome: the result

vars == <<remote, pc, deleted, handle, obs, result, calls, out, data, cancelled, details,
         fin, fout>>
passVars == <<remote, pc, deleted, handle, obs, result, calls, out, data, cancelled, details>>

----------------------------------------------------------------------------
(* Bounds and value sets *)

\* longest record list drawn for the exists() function check
MaxLen == 2

\* the managed resources (TestCase objects) reconciled
MR == {"tc1", "tc2"}

\* Spec.ForProvider.Org / Spec.ForProvider.Name of each managed resource
ForProvider(m) ==
    IF m = "tc1" THEN [Org |-> "acme", Name |-> "load-1"]
                 ELSE [Org |-> "acme", Name |-> "load-2"]

Orgs == {"acme", "beta"}
Names == {"load-1", "load-2"}
Keys == {<<ForProvider(m).Org, ForProvider(m).Name>> : m \in MR}
KeyOf(m) == <<ForProvider(m).Org, ForProvider(m).Name>>

\* credential bytes the ProviderConfig's secret may hold
Creds == {"jwt-A", "jwt-B"}

errNotMyType == "managed resource is not a TestCase custom resource"
errTrackPCUsage == "cannot track ProviderConfig usage"
errGetPC == "cannot get ProviderConfig"
errGetCreds == "cannot get credentials"
errNewClient == "cannot create new Service"

----------------------------------------------------------------------------
(* forgeApiResponse and its decoding *)

\* a JSON name key that is not present in a record
Missing == "<missing>"

\* one element of the "data" array as the CLI prints it
RawElement == [id : {"1"}, name : Names \cup {Missing}, scope : Orgs]

RECURSIVE SeqsUpTo(_, _)
SeqsUpTo(S, n) ==
    IF n = 0 THEN {<<>>}
    ELSE LET shorter == SeqsUpTo(S, n - 1)
         IN shorter \cup {Append(s, e) : s \in {t \in shorter : Len(t) = n - 1}, e \in S}

\* what the CLI may print on stdout: not JSON at all, the JSON value null,
\* a top-level array, or an object whose "data" key is absent, null, a string
\* or an array of records
Payloads(n) ==
    [kind : {"garbage", "null", "array"}, data : {"absent"}, items : {<<>>}]
    \cup [kind : {"object"}, data : {"absent", "null", "string"}, items : {<<>>}]
    \cup [kind : {"object"}, data : {"list"}, items : SeqsUpTo(RawElement, n)]

\* forgeApiResponseData as decoded: a key that is missing leaves the zero value ""
forgeApiResponseData(e) ==
    [Id |-> e.id,
     Attributes |-> [Name |-> IF e.name = Missing THEN "" ELSE e.name,
                     Scope |-> e.scope,
                     Org |-> ""]]

\* json.Unmarshal(stdout, &r) into a forgeApiResponse
Unmarshal(stdout) ==
    IF stdout.kind = "garbage" THEN [err |-> TRUE, ForgeApiResponseData |-> <<>>]
    ELSE IF stdout.kind = "array" THEN [err |-> TRUE, ForgeApiResponseData |-> <<>>]
    ELSE IF stdout.kind = "null" THEN [err |-> FALSE, ForgeApiResponseData |-> <<>>]
    ELSE IF stdout.data = "string" THEN [err |-> TRUE, ForgeApiResponseData |-> <<>>]
    ELSE IF stdout.data = "list"
         THEN [err |-> FALSE,
               ForgeApiResponseData |->
                   [i \in 1..Len(stdout.items) |-> forgeApiResponseData(stdout.items[i])]]
    ELSE [err |-> FALSE, ForgeApiResponseData |-> <<>>]

\* the for-range loop of exists: first element whose name matches returns true
RECURSIVE existsLoop(_, _, _)
existsLoop(elements, i, name) ==
    IF i > Len(elements) THEN FALSE
    ELSE IF elements[i].Attributes.Name = name THEN TRUE
    ELSE existsLoop(elements, i + 1, name)

\* variant: only the first element is compared
existsFirstOnly(cmd, name) ==
    IF cmd.err THEN [exists |-> FALSE, err |-> TRUE]
    ELSE LET r == Unmarshal(cmd.stdout)
         IN IF r.err THEN [exists |-> FALSE, err |-> TRUE]
            ELSE [exists |-> Len(r.ForgeApiResponseData) > 0
                             /\ r.ForgeApiResponseData[1].Attributes.Name = name,
                  err |-> FALSE]

\* forge.exists(org, name), given the outcome cmd of running
\* "forge --output json test-case list <org>"
exists(cmd, name) ==
    IF cmd.err THEN [exists |-> FALSE, err |-> TRUE]
    ELSE LET r == Unmarshal(cmd.stdout)
         IN IF r.err THEN [exists |-> FALSE, err |-> TRUE]
            ELSE [exists |-> existsLoop(r.ForgeApiResponseData, 1, name),
                  err |-> FALSE]

\* outcomes of a command: it failed (non-zero exit), or it printed stdout
CmdFailed == [err |-> TRUE, stdout |-> [kind |-> "garbage", data |-> "absent", items |-> <<>>]]
CmdOutput(p) == [err |-> FALSE, stdout |-> p]

----------------------------------------------------------------------------
(* The forge CLI and the external system behind it *)

\* the command lines the client runs
PingCmd == <<"forge", "ping">>
ListCmd(org) == <<"forge", "--output", "json", "test-case", "list", org>>
CreateCmd(org, name) ==
    <<"forge", "test-case", "create", org \o "/" \o name, "examples/sample/loadtest.mjs">>

\* err.Error() of a command that exited non-zero
ExitError == "exit status 1"

IsPing(c) == c.argv = PingCmd
IsList(c) == Len(c.argv) = 6 /\ c.argv[5] = "list"
IsCreate(c) == Len(c.argv) = 5 /\ c.argv[3] = "create"
IsDelete(c) == Len(c.argv) >= 3 /\ c.argv[3] = "delete"

\* a command run during a pass: its command line, whether it succeeded, and
\* whether the pass's test case was present in the external system at that time
Call(argv, ok, m) == [argv |-> argv, ok |-> ok, present |-> KeyOf(m) \in remote]

\* the records the external system holds for org, in any order
RecordsOf(org) == {[id |-> "1", name |-> k[2], scope |-> k[1]] : k \in {q \in remote : q[1] = org}}
Listings(org) ==
    LET S == RecordsOf(org)
    IN {s \in SeqsUpTo(S, Cardinality(S)) :
            Len(s) = Cardinality(S) /\ \A i, j \in 1..Len(s) : i # j => s[i] # s[j]}

\* what running "test-case list <org>" can give: a failed command, output that
\* is not JSON, or the records of org
ListOutcomes(org) ==
    {CmdFailed}
    \cup {CmdOutput([kind |-> "garbage", data |-> "absent", items |-> <<>>])}
    \cup {CmdOutput([kind |-> "object", data |-> "list", items |-> s]) : s \in Listings(org)}

----------------------------------------------------------------------------
(* Pass-local values *)

NoHandle == [set |-> FALSE, forge |-> [jwtToken |-> ""]]
NoObs == [set |-> FALSE, ResourceExists |-> FALSE, ResourceUpToDate |-> FALSE, err |-> ""]

\* no handler has returned connection details; managed.ConnectionDetails{} is {}
NoDetails == {"<none>"}

\* NewForge never fails
NewForge(jwtToken) == [err |-> FALSE, forge |-> [jwtToken |-> jwtToken]]

\* the managed reconciler is registered For(&v1alpha1.TestCase{}): every object
\* handed to the external client is a TestCase
IsTestCase(m) == m \in MR

Init ==
    /\ remote \in SUBSET Keys
    /\ pc = [m \in MR |-> "idle"]
    /\ deleted = [m \in MR |-> FALSE]
    /\ handle = [m \in MR |-> NoHandle]
    /\ obs = [m \in MR |-> NoObs]
    /\ result = [m \in MR |-> ""]
    /\ calls = [m \in MR |-> <<>>]
    /\ out = [m \in MR |-> <<>>]
    /\ data = [m \in MR |-> ""]
    /\ cancelled = [m \in MR |-> FALSE]
    /\ details = [m \in MR |-> NoDetails]
    /\ fin = [cmd |-> CmdFailed, name |-> "load-1"]
    /\ fout = [applied |-> FALSE, exists |-> FALSE, err |-> FALSE]

----------------------------------------------------------------------------
(* The scheduler and the outside world *)

\* the scheduler starts a pass for m; nothing of the previous pass is kept
Reconcile(m) ==
    /\ pc[m] = "idle"
    /\ pc' = [pc EXCEPT ![m] = "connect"]
    /\ handle' = [handle EXCEPT ![m] = NoHandle]
    /\ obs' = [obs EXCEPT ![m] = NoObs]
    /\ result' = [result EXCEPT ![m] = ""]
    /\ calls' = [calls EXCEPT ![m] = <<>>]
    /\ out' = [out EXCEPT ![m] = <<>>]
    /\ data' = [data EXCEPT ![m] = ""]
    /\ cancelled' = [cancelled EXCEPT ![m] = FALSE]
    /\ details' = [details EXCEPT ![m] = NoDetails]
    /\ UNCHANGED <<remote, deleted, fin, fout>>

\* the TestCase object is marked for removal between passes
MarkDeleted(m) ==
    /\ pc[m] = "idle"
    /\ ~deleted[m]
    /\ deleted' = [deleted EXCEPT ![m] = TRUE]
    /\ UNCHANGED <<remote, pc, handle, obs, result, calls, out, data, cancelled, details, fin, fout>>

\* somebody else creates or removes a test case in the external system
OutOfBand(k) ==
    /\ remote' = IF k \in remote THEN remote \ {k} ELSE remote \cup {k}
    /\ UNCHANGED <<pc, deleted, handle, obs, result, calls, out, data, cancelled, details, fin, fout>>

\* the context of the running pass of m is cancelled (shutdown or timeout)
Cancel(m) ==
    /\ pc[m] \notin {"idle", "gone"}
    /\ ~cancelled[m]
    /\ cancelled' = [cancelled EXCEPT ![m] = TRUE]
    /\ UNCHANGED <<remote, pc, deleted, handle, obs, result, calls, out, data, details, fin, fout>>

----------------------------------------------------------------------------
(* connector.Connect *)

\* Connect returns (nil, err): the pass ends in error
ConnectFails(m, err, printed) ==
    /\ pc' = [pc EXCEPT ![m] = "idle"]
    /\ result' = [result EXCEPT ![m] = err]
    /\ out' = [out EXCEPT ![m] = out[m] \o printed]
    /\ UNCHANGED <<remote, deleted, handle, obs, calls, data, cancelled, details, fin, fout>>

\* print "MDL Connect", assert the type, track the ProviderConfig usage
ConnectTrack(m) ==
    /\ pc[m] = "connect"
    /\ \E ok \in BOOLEAN :
        IF ~IsTestCase(m) THEN ConnectFails(m, errNotMyType, <<"MDL Connect">>)
        ELSE IF ~ok THEN ConnectFails(m, errTrackPCUsage, <<"MDL Connect">>)
        ELSE /\ pc' = [pc EXCEPT ![m] = "getpc"]
             /\ out' = [out EXCEPT ![m] = Append(out[m], "MDL Connect")]
             /\ UNCHANGED <<remote, deleted, handle, obs, result, calls, data, cancelled, details, fin, fout>>

\* variant: the lookup failure is wrapped with the message of another step
ConnectGetPCWrongError(m) ==
    /\ pc[m] = "getpc"
    /\ \E ok \in BOOLEAN :
        IF ~ok THEN ConnectFails(m, errGetCreds, <<>>)
        ELSE /\ pc' = [pc EXCEPT ![m] = "getcreds"]
             /\ UNCHANGED <<remote, deleted, handle, obs, result, calls, out, data, cancelled, details, fin, fout>>

\* get the ProviderConfig the TestCase refers to
ConnectGetPC(m) ==
    /\ pc[m] = "getpc"
    /\ \E ok \in BOOLEAN :
        IF ~ok THEN ConnectFails(m, errGetPC, <<>>)
        ELSE /\ pc' = [pc EXCEPT ![m] = "getcreds"]
             /\ UNCHANGED <<remote, deleted, handle, obs, result, calls, out, data, cancelled, details, fin, fout>>

\* variant: the client is built and pinged before the extraction error is looked at
ConnectGetCredsPingFirst(m) ==
    /\ pc[m] = "getcreds"
    /\ \E d \in Creds \cup {""} :
        IF d = ""
        THEN /\ calls' = [calls EXCEPT ![m] = Append(calls[m], Call(PingCmd, TRUE, m))]
             /\ pc' = [pc EXCEPT ![m] = "idle"]
             /\ result' = [result EXCEPT ![m] = errGetCreds]
             /\ UNCHANGED <<remote, deleted, handle, obs, out, data, cancelled, details, fin, fout>>
        ELSE /\ pc' = [pc EXCEPT ![m] = "newforge"]
             /\ data' = [data EXCEPT ![m] = d]
             /\ UNCHANGED <<remote, deleted, handle, obs, result, calls, out, cancelled, details, fin, fout>>

\* extract the credentials the ProviderConfig selects
ConnectGetCreds(m) ==
    /\ pc[m] = "getcreds"
    /\ \E d \in Creds \cup {""} :
        IF d = "" THEN ConnectFails(m, errGetCreds, <<>>)
        ELSE /\ pc' = [pc EXCEPT ![m] = "newforge"]
             /\ data' = [data EXCEPT ![m] = d]
             /\ UNCHANGED <<remote, deleted, handle, obs, result, calls, out, cancelled, details, fin, fout>>

\* variant: a failed ping makes Connect return an error
ConnectNewForgePingFatal(m) ==
    /\ pc[m] = "newforge"
    /\ \E pingOk \in BOOLEAN :
        LET line == "MDL pc.Spec.Credentials.data: " \o data[m]
        IN /\ calls' = [calls EXCEPT ![m] = Append(calls[m], Call(PingCmd, pingOk, m))]
           /\ out' = [out EXCEPT ![m] = out[m] \o
                         <<line, IF pingOk THEN "pong" ELSE ExitError>>]
           /\ handle' = [handle EXCEPT ![m] =
                            IF pingOk THEN [set |-> TRUE, forge |-> NewForge(data[m]).forge]
                            ELSE NoHandle]
           /\ pc' = [pc EXCEPT ![m] = IF pingOk THEN "observe" ELSE "idle"]
           /\ result' = [result EXCEPT ![m] = IF pingOk THEN "" ELSE errNewClient]
           /\ UNCHANGED <<remote, deleted, obs, data, cancelled, details, fin, fout>>

\* variant: the client is kept in one place that all passes use
ConnectNewForgeShared(m) ==
    /\ pc[m] = "newforge"
    /\ \E pingOk \in BOOLEAN :
        LET line == "MDL pc.Spec.Credentials.data: " \o data[m]
        IN /\ calls' = [calls EXCEPT ![m] = Append(calls[m], Call(PingCmd, pingOk, m))]
           /\ out' = [out EXCEPT ![m] = out[m] \o
                         <<line, IF pingOk THEN "pong" ELSE ExitError>>]
           /\ handle' = [n \in MR |-> [set |-> TRUE, forge |-> NewForge(data[m]).forge]]
           /\ pc' = [pc EXCEPT ![m] = "observe"]
           /\ UNCHANGED <<remote, deleted, obs, result, data, cancelled, details, fin, fout>>

\* print the credentials, build the forge client, ping (result dropped), and
\* return the external client
ConnectNewForge(m) ==
    /\ pc[m] = "newforge"
    /\ \E pingOk \in BOOLEAN :
        LET f == NewForge(data[m])
            line == "MDL pc.Spec.Credentials.data: " \o data[m]
        IN IF f.err THEN ConnectFails(m, errNewClient, <<line>>)
           ELSE /\ calls' = [calls EXCEPT ![m] = Append(calls[m], Call(PingCmd, pingOk, m))]
                /\ out' = [out EXCEPT ![m] = out[m] \o
                              <<line, IF pingOk THEN "pong" ELSE ExitError>>]
                /\ handle' = [handle EXCEPT ![m] = [set |-> TRUE, forge |-> f.forge]]
                /\ pc' = [pc EXCEPT ![m] = "observe"]
                /\ UNCHANGED <<remote, deleted, obs, result, data, cancelled, details, fin, fout>>

----------------------------------------------------------------------------
(* external.Observe / Create / Delete *)

\* variant: Observe runs the create command before it lists
ObserveCreatesFirst(m) ==
    /\ pc[m] = "observe"
    /\ handle[m].set
    /\ \E cmd \in ListOutcomes(ForProvider(m).Org) :
        LET r == exists(cmd, ForProvider(m).Name)
        IN /\ calls' = [calls EXCEPT ![m] =
                           calls[m] \o
                           <<Call(CreateCmd(ForProvider(m).Org, ForProvider(m).Name), FALSE, m),
                             Call(ListCmd(ForProvider(m).Org), ~r.err, m)>>]
           /\ obs' = [obs EXCEPT ![m] = [set |-> TRUE,
                                         ResourceExists |-> TRUE,
                                         ResourceUpToDate |-> TRUE,
                                         err |-> ""]]
           /\ pc' = [pc EXCEPT ![m] = "observed"]
           /\ UNCHANGED <<remote, deleted, handle, result, out, data, cancelled, details, fin, fout>>

\* Observe: run exists, drop its error, report the resource up to date
Observe(m) ==
    /\ pc[m] = "observe"
    /\ handle[m].set
    /\ \E cmd \in ListOutcomes(ForProvider(m).Org) :
        LET r == exists(cmd, ForProvider(m).Name)
        IN IF ~IsTestCase(m)
           THEN /\ obs' = [obs EXCEPT ![m] = [NoObs EXCEPT !.set = TRUE, !.err = errNotMyType]]
                /\ pc' = [pc EXCEPT ![m] = "observed"]
                /\ UNCHANGED <<remote, deleted, handle, result, calls, out, data, cancelled, details, fin, fout>>
           ELSE /\ calls' = [calls EXCEPT ![m] =
                                Append(calls[m], Call(ListCmd(ForProvider(m).Org), ~r.err, m))]
                /\ out' = [out EXCEPT ![m] = out[m] \o
                              (IF r.err THEN <<ExitError>> ELSE <<>>) \o
                              <<"MDL Observing: " \o m,
                                "MDL Observing TestCase Exists: "
                                    \o (IF r.exists THEN "true" ELSE "false")>>]
                /\ obs' = [obs EXCEPT ![m] = [set |-> TRUE,
                                              ResourceExists |-> r.exists,
                                              ResourceUpToDate |-> TRUE,
                                              err |-> ""]]
                /\ details' = [details EXCEPT ![m] = {}]
                /\ pc' = [pc EXCEPT ![m] = "observed"]
                /\ UNCHANGED <<remote, deleted, handle, result, data, cancelled, fin, fout>>

\* what the managed reconciler does with an observation: an error ends the pass;
\* a resource marked for removal is deleted while it exists; an absent resource
\* is created; a stale one is updated
ObserveFailed(m) == obs[m].err # ""
ShouldDelete(m) == ~ObserveFailed(m) /\ deleted[m] /\ obs[m].ResourceExists
ShouldCreate(m) == ~ObserveFailed(m) /\ ~deleted[m] /\ ~obs[m].ResourceExists
ShouldUpdate(m) ==
    ~ObserveFailed(m) /\ ~deleted[m] /\ obs[m].ResourceExists /\ ~obs[m].ResourceUpToDate

\* variant: the create command is run a second time when the first run failed
CreateRetries(m) ==
    /\ pc[m] = "observed"
    /\ ShouldCreate(m)
    /\ \E ok \in BOOLEAN :
        LET c == Call(CreateCmd(ForProvider(m).Org, ForProvider(m).Name), ok, m)
        IN /\ calls' = [calls EXCEPT ![m] =
                           calls[m] \o (IF ok THEN <<c>> ELSE <<c, c>>)]
           /\ remote' = IF ok THEN remote \cup {KeyOf(m)} ELSE remote
           /\ result' = [result EXCEPT ![m] = IF ok THEN "ok" ELSE ExitError]
           /\ pc' = [pc EXCEPT ![m] = "idle"]
           /\ UNCHANGED <<deleted, handle, obs, out, data, cancelled, details, fin, fout>>

\* Create: run the create command and return its error
Create(m) ==
    /\ pc[m] = "observed"
    /\ ShouldCreate(m)
    /\ \E ok \in BOOLEAN :
        /\ calls' = [calls EXCEPT ![m] =
                        Append(calls[m],
                               Call(CreateCmd(ForProvider(m).Org, ForProvider(m).Name), ok, m))]
        /\ remote' = IF ok THEN remote \cup {KeyOf(m)} ELSE remote
        /\ out' = [out EXCEPT ![m] = out[m] \o
                      <<"MDL Creating: " \o m, IF ok THEN "create: " ELSE ExitError>>]
        /\ result' = [result EXCEPT ![m] = IF ok THEN "ok" ELSE ExitError]
        /\ details' = [details EXCEPT ![m] = {}]
        /\ pc' = [pc EXCEPT ![m] = "idle"]
        /\ UNCHANGED <<deleted, handle, obs, data, cancelled, fin, fout>>

\* variant: Delete runs a delete command against the external system
DeleteRemote(m) ==
    /\ pc[m] = "observed"
    /\ ShouldDelete(m)
    /\ calls' = [calls EXCEPT ![m] =
                    Append(calls[m],
                           Call(<<"forge", "test-case", "delete",
                                  ForProvider(m).Org \o "/" \o ForProvider(m).Name>>, TRUE, m))]
    /\ remote' = remote \ {KeyOf(m)}
    /\ result' = [result EXCEPT ![m] = "ok"]
    /\ pc' = [pc EXCEPT ![m] = "idle"]
    /\ UNCHANGED <<deleted, handle, obs, out, data, cancelled, details, fin, fout>>

\* variant: Update pushes the test case to the external system again
UpdateRecreates(m) ==
    /\ pc[m] = "observed"
    /\ calls' = [calls EXCEPT ![m] =
                    Append(calls[m],
                           Call(CreateCmd(ForProvider(m).Org, ForProvider(m).Name), TRUE, m))]
    /\ out' = [out EXCEPT ![m] = Append(out[m], "MDL Updating: " \o m)]
    /\ details' = [details EXCEPT ![m] = {}]
    /\ result' = [result EXCEPT ![m] = "ok"]
    /\ pc' = [pc EXCEPT ![m] = "idle"]
    /\ UNCHANGED <<remote, deleted, handle, obs, data, cancelled, fin, fout>>

\* Update, called on the external client after Observe: print and return empty
\* connection details
Update(m) ==
    /\ pc[m] = "observed"
    /\ out' = [out EXCEPT ![m] = Append(out[m], "MDL Updating: " \o m)]
    /\ details' = [details EXCEPT ![m] = {}]
    /\ result' = [result EXCEPT ![m] = "ok"]
    /\ pc' = [pc EXCEPT ![m] = "idle"]
    /\ UNCHANGED <<remote, deleted, handle, obs, calls, data, cancelled, fin, fout>>

\* Delete: print and return nil
Delete(m) ==
    /\ pc[m] = "observed"
    /\ ShouldDelete(m)
    /\ out' = [out EXCEPT ![m] = Append(out[m], "MDL Deleting: " \o m)]
    /\ result' = [result EXCEPT ![m] = "ok"]
    /\ pc' = [pc EXCEPT ![m] = "idle"]
    /\ UNCHANGED <<remote, deleted, handle, obs, calls, data, cancelled, details, fin, fout>>

\* the pass ends without a mutation: Observe failed, the resource is present and
\* up to date, or the resource marked for removal is reported absent (the
\* TestCase object is then released and reconciled no more)
PassEnds(m) ==
    /\ pc[m] = "observed"
    /\ ~ShouldCreate(m) /\ ~ShouldDelete(m) /\ ~ShouldUpdate(m)
    /\ result' = [result EXCEPT ![m] = IF ObserveFailed(m) THEN obs[m].err ELSE "ok"]
    /\ pc' = [pc EXCEPT ![m] =
                 IF ~ObserveFailed(m) /\ deleted[m] THEN "gone" ELSE "idle"]
    /\ UNCHANGED <<remote, deleted, handle, obs, calls, out, data, cancelled, details, fin, fout>>

----------------------------------------------------------------------------
(* Specifications *)

Pass(m) ==
    \/ Reconcile(m)
    \/ ConnectTrack(m)
    \/ ConnectGetPC(m)
    \/ ConnectGetCreds(m)
    \/ ConnectNewForge(m)
    \/ Observe(m)
    \/ Create(m)
    \/ Delete(m)
    \/ PassEnds(m)

Next ==
    \/ \E m \in MR : Pass(m)
    \/ \E m \in MR : MarkDeleted(m)
    \/ \E k \in Keys : OutOfBand(k)

Spec == Init /\ [][Next]_vars

\* the same program with nobody else changing the external system
NextClosed ==
    \/ \E m \in MR : Pass(m)
    \/ \E m \in MR : MarkDeleted(m)

SpecClosed == Init /\ [][NextClosed]_vars

\* the same program with the context of a pass cancelled at any point
NextCancel ==
    \/ \E m \in MR : Pass(m)
    \/ \E m \in MR : MarkDeleted(m)
    \/ \E m \in MR : Cancel(m)

SpecCancel == Init /\ [][NextCancel]_vars

\* the same program with Update also called on the external client
NextDirect ==
    \/ Next
    \/ \E m \in MR : Update(m)

SpecDirect == Init /\ [][NextDirect]_vars

\* the program when every call succeeds, nobody else touches the external
\* system and no TestCase is marked for removal
AllOk ==
    \A m \in MR :
        /\ result[m] \in {"", "ok"}
        /\ \A i \in DOMAIN calls[m] : calls[m][i].ok

NextHappy ==
    \E m \in MR :
        \/ Reconcile(m) /\ AllOk'
        \/ ConnectTrack(m) /\ AllOk'
        \/ ConnectGetPC(m) /\ AllOk'
        \/ ConnectGetCreds(m) /\ AllOk'
        \/ ConnectNewForge(m) /\ AllOk'
        \/ Observe(m) /\ AllOk'
        \/ Create(m) /\ AllOk'
        \/ PassEnds(m) /\ AllOk'

SpecHappy == Init /\ [][NextHappy]_vars

\* forge.exists applied to one drawn command outcome and name
InitExists ==
    /\ remote = {}
    /\ pc = [m \in MR |-> "idle"]
    /\ deleted = [m \in MR |-> FALSE]
    /\ handle = [m \in MR |-> NoHandle]
    /\ obs = [m \in MR |-> NoObs]
    /\ result = [m \in MR |-> ""]
    /\ calls = [m \in MR |-> <<>>]
    /\ out = [m \in MR |-> <<>>]
    /\ data = [m \in MR |-> ""]
    /\ cancelled = [m \in MR |-> FALSE]
    /\ details = [m \in MR |-> NoDetails]
    /\ fin \in [cmd : {CmdFailed} \cup {CmdOutput(p) : p \in Payloads(MaxLen)}, name : Names]
    /\ fout = [applied |-> FALSE, exists |-> FALSE, err |-> FALSE]

ApplyExists ==
    /\ ~fout.applied
    /\ fout' = [applied |-> TRUE,
                exists |-> exists(fin.cmd, fin.name).exists,
                err |-> exists(fin.cmd, fin.name).err]
    /\ UNCHANGED <<passVars, fin>>

SpecExists == InitExists /\ [][ApplyExists]_vars

----------------------------------------------------------------------------
(* Properties *)

\* the pass of m has ended (and no new one has begun)
PassDone(m) == pc[m] \in {"idle", "gone"} /\ result[m] # ""
Idx(m) == DOMAIN calls[m]
Count(m, P(_)) == Cardinality({i \in Idx(m) : P(calls[m][i])})
FailedList(c) == IsList(c) /\ ~c.ok
ConnectErrors == {errTrackPCUsage, errGetPC, errGetCreds}

\* C1: in no pass is a create command run once the list command of exists() has
\* failed or printed something that does not decode.
C1_NoCreateAfterExistsError ==
    \A m \in MR : \A i, j \in Idx(m) :
        FailedList(calls[m][i]) => ~IsCreate(calls[m][j])

\* C2: when the list command fails or prints a malformed payload, Observe
\* returns an error, and the pass ends in that error, not in success.
C2_ObserveReturnsQueryError ==
    \A m \in MR :
        (obs[m].set /\ \E i \in Idx(m) : FailedList(calls[m][i]))
            => /\ obs[m].err # ""
               /\ (PassDone(m) => result[m] # "ok")

\* C3: a create command is never run for a test case that is present in the
\* external system when the command is issued.
C3_NoCreateWhenPresent ==
    \A m \in MR : \A i \in Idx(m) :
        IsCreate(calls[m][i]) => ~calls[m][i].present

\* C4: a pass that connected, for a TestCase not marked for removal whose test
\* case was absent when it was listed, has run exactly one list command and
\* exactly one create command, the latter naming org/name; and no pass ever
\* holds more than one create command.
C4_AbsentOneExistsOneCreate ==
    \A m \in MR :
        /\ Count(m, IsCreate) <= 1
        /\ (/\ PassDone(m)
            /\ handle[m].set
            /\ ~deleted[m]
            /\ \E i \in Idx(m) : IsList(calls[m][i]) /\ ~calls[m][i].present)
           => /\ Count(m, IsList) = 1
              /\ Count(m, IsCreate) = 1
              /\ \A i \in Idx(m) :
                    IsCreate(calls[m][i]) =>
                        calls[m][i].argv[4] = (IF m = "tc1" THEN "acme/load-1" ELSE "acme/load-2")

C4_Witness ==
    \E m \in MR :
        /\ PassDone(m) /\ handle[m].set /\ ~deleted[m]
        /\ \E i \in Idx(m) : IsList(calls[m][i]) /\ calls[m][i].ok /\ ~calls[m][i].present
        /\ \E i \in Idx(m) : IsCreate(calls[m][i]) /\ calls[m][i].ok
        /\ KeyOf(m) \in remote

\* C5: once the list command succeeded while the test case was present (exists
\* returns true), Observe reports exists and up to date, and the pass runs no
\* create and no delete command, also when the TestCase is marked for removal
\* and Delete is called.
C5_PresentNoCreateNoDelete ==
    \A m \in MR :
        (obs[m].set /\ \E i \in Idx(m) :
                          IsList(calls[m][i]) /\ calls[m][i].ok /\ calls[m][i].present)
            => /\ obs[m].ResourceExists
               /\ obs[m].ResourceUpToDate
               /\ obs[m].err = ""
               /\ \A i \in Idx(m) : ~IsCreate(calls[m][i]) /\ ~IsDelete(calls[m][i])

C5_Witness ==
    \E m \in MR :
        /\ PassDone(m) /\ deleted[m] /\ result[m] = "ok"
        /\ obs[m].ResourceExists
        /\ \E i \in Idx(m) : IsList(calls[m][i]) /\ calls[m][i].ok /\ calls[m][i].present
        /\ out[m][Len(out[m])] = "MDL Deleting: " \o m

\* C6: a pass whose Connect failed at usage tracking, at the ProviderConfig
\* lookup or at credential extraction has built no external client and has run
\* no forge command.
C6_ConnectFailureNoCalls ==
    \A m \in MR :
        result[m] \in ConnectErrors
            => ~handle[m].set /\ calls[m] = <<>> /\ ~obs[m].set

C6_Witness ==
    \E m \in MR : PassDone(m) /\ result[m] = errGetCreds /\ out[m] = <<"MDL Connect">>

\* C7: after a failed ping Connect has still returned the external client
\* without error, the pass goes on to Observe, and a finished pass has run the
\* list command and, for a TestCase not marked for removal that Observe
\* reported absent, the create command.
C7_PingFailureIsAdvisory ==
    \A m \in MR :
        (\E i \in Idx(m) : IsPing(calls[m][i]) /\ ~calls[m][i].ok)
            => /\ handle[m].set
               /\ result[m] \notin ConnectErrors \cup {errNewClient, errNotMyType}
               /\ pc[m] = "observe" => ENABLED Observe(m)
               /\ PassDone(m) =>
                     /\ \E i \in Idx(m) : IsList(calls[m][i])
                     /\ (~deleted[m] /\ ~obs[m].ResourceExists)
                            => \E i \in Idx(m) : IsCreate(calls[m][i])

C7_Witness ==
    \E m \in MR :
        /\ PassDone(m)
        /\ \E i \in Idx(m) : IsPing(calls[m][i]) /\ ~calls[m][i].ok
        /\ \E i \in Idx(m) : IsCreate(calls[m][i]) /\ calls[m][i].ok

\* C8: exists returns true exactly when the command succeeded and printed a
\* record list holding a record whose attributes.name is the name asked for; on
\* a record list without such a record (the empty list too) it returns false
\* and no error.
C8_ExistsIffNameListed ==
    fout.applied =>
        LET p == fin.cmd.stdout
            isList == ~fin.cmd.err /\ p.kind = "object" /\ p.data = "list"
            listed == \E i \in 1..Len(p.items) : p.items[i].name = fin.name
        IN /\ fout.exists <=> (isList /\ listed)
           /\ (isList /\ ~listed) => (~fout.exists /\ ~fout.err)

C8_Witness ==
    /\ fout.applied /\ fout.exists /\ ~fout.err
    /\ Len(fin.cmd.stdout.items) = 2
    /\ fin.cmd.stdout.items[1].name # fin.name
    /\ fin.cmd.stdout.items[2].name = fin.name

\* C9: a pass whose create command failed ends in that error, and the test
\* case is then absent from the external system (so that the next pass finds
\* it absent and creates it).
C9_CreateFailureSurfacedAndAbsent ==
    \A m \in MR :
        (PassDone(m) /\ \E i \in Idx(m) : IsCreate(calls[m][i]) /\ ~calls[m][i].ok)
            => /\ result[m] = ExitError
               /\ KeyOf(m) \notin remote

\* C10: in every pass the commands come in the order ping (Connect), list
\* (Observe), then at most one create, which is the last command: a create is
\* preceded by the pass's list command and Observe has returned, and a list is
\* preceded by the ping of a Connect that has returned the client.
C10_ConnectObserveMutateOrder ==
    \A m \in MR :
        /\ Count(m, IsCreate) <= 1
        /\ \A i \in Idx(m) :
            /\ IsCreate(calls[m][i]) =>
                  /\ obs[m].set
                  /\ i = Len(calls[m])
                  /\ \E j \in 1..(i - 1) : IsList(calls[m][j])
            /\ IsList(calls[m][i]) =>
                  /\ handle[m].set
                  /\ \E j \in 1..(i - 1) : IsPing(calls[m][j])
                  /\ \A j \in 1..(i - 1) : ~IsList(calls[m][j])

C10_Witness ==
    \E m \in MR :
        /\ Len(calls[m]) = 3
        /\ IsPing(calls[m][1]) /\ IsList(calls[m][2]) /\ IsCreate(calls[m][3])

\* C11: a step of one managed resource's pass leaves the handle, observation,
\* result, commands and credentials of every other managed resource as they
\* were; the handle a pass holds was built in that pass from the credentials
\* that pass extracted; and what a successful list makes Observe report is the
\* presence of the pass's own test case, whatever else the organization holds.
C11_NoInterference ==
    [][\A m \in MR :
          /\ (pc'[m] = pc[m]) =>
                /\ handle'[m] = handle[m]
                /\ obs'[m] = obs[m]
                /\ result'[m] = result[m]
                /\ calls'[m] = calls[m]
                /\ data'[m] = data[m]
                /\ details'[m] = details[m]
          /\ handle'[m].set =>
                /\ handle'[m].forge.jwtToken = data'[m]
                /\ pc'[m] \notin {"connect", "getpc", "getcreds", "newforge"}
          /\ \A i \in DOMAIN calls'[m] :
                (obs'[m].set /\ IsList(calls'[m][i]) /\ calls'[m][i].ok)
                    => obs'[m].ResourceExists = calls'[m][i].present
      ]_vars

C11_Witness ==
    /\ handle["tc1"].set /\ handle["tc2"].set
    /\ handle["tc1"].forge.jwtToken # handle["tc2"].forge.jwtToken
    /\ PassDone("tc2") /\ result["tc2"] = ExitError
    /\ KeyOf("tc2") \in remote
    /\ pc["tc1"] = "observed"
    /\ \E i \in Idx("tc1") :
          IsList(calls["tc1"][i]) /\ calls["tc1"][i].ok /\ ~calls["tc1"][i].present
    /\ ~obs["tc1"].ResourceExists

\* C12: once the context of a pass is cancelled the pass starts no further
\* forge command, and a pass never holds more than its single create command.
C12_NoCallAfterCancel ==
    [][\A m \in MR :
          /\ cancelled[m] => Len(calls'[m]) <= Len(calls[m])
          /\ Count(m, IsCreate) <= 1
      ]_vars

\* Update has returned in the finished pass of m
Updated(m) ==
    PassDone(m) /\ Len(out[m]) > 0 /\ out[m][Len(out[m])] = "MDL Updating: " \o m

\* C13: whenever Observe reports the resource present it reports it up to date,
\* so the reconciler never has to call Update, and the list command stays the
\* last command of that pass; Update, when it is called, runs no command and
\* returns empty connection details.
C13_PresentIsUpToDateUpdateIdle ==
    \A m \in MR :
        /\ ~ShouldUpdate(m)
        /\ (obs[m].set /\ obs[m].ResourceExists) =>
              /\ obs[m].ResourceUpToDate
              /\ \A i \in Idx(m) : IsList(calls[m][i]) => i = Len(calls[m])
        /\ Updated(m) =>
              /\ details[m] = {}
              /\ result[m] = "ok"
              /\ IsList(calls[m][Len(calls[m])])

C13_Witness ==
    \E m \in MR :
        /\ Updated(m)
        /\ obs[m].ResourceExists /\ obs[m].ResourceUpToDate
        /\ KeyOf(m) \in remote
        /\ details[m] = {}

\* C14: the step in which Delete is called for a TestCase runs no command,
\* leaves the external system as it is and ends the pass in success.
C14_DeleteIsNoOp ==
    [][\A m \in MR :
          (pc[m] = "observed" /\ ShouldDelete(m) /\ pc'[m] # pc[m]) =>
              /\ calls'[m] = calls[m]
              /\ remote' = remote
              /\ result'[m] = "ok"
              /\ pc'[m] = "idle"
      ]_vars

C14_Witness ==
    \E m \in MR :
        /\ PassDone(m) /\ deleted[m] /\ result[m] = "ok"
        /\ out[m][Len(out[m])] = "MDL Deleting: " \o m
        /\ KeyOf(m) \in remote
        /\ Len(calls[m]) = 2

\* C15: Connect takes its steps in the order track, get ProviderConfig, get
\* credentials, build client and ping; a pass leaves a step only for the next
\* one or, on failure, ends with that step's own error, with no client, no
\* credentials past the failed step and no command run.
C15_ConnectFailFastInOrder ==
    [][\A m \in MR :
          /\ (pc'[m] # pc[m] /\ pc'[m] = "getpc") => pc[m] = "connect"
          /\ (pc'[m] # pc[m] /\ pc'[m] = "getcreds") => pc[m] = "getpc"
          /\ (pc'[m] # pc[m] /\ pc'[m] = "newforge") => pc[m] = "getcreds" /\ data'[m] \in Creds
          /\ (handle'[m].set /\ ~handle[m].set) =>
                /\ pc[m] = "newforge"
                /\ Len(calls'[m]) = 1 /\ IsPing(calls'[m][1])
          /\ (pc[m] = "connect" /\ pc'[m] = "idle") => result'[m] = errTrackPCUsage
          /\ (pc[m] = "getpc" /\ pc'[m] = "idle") => result'[m] = errGetPC
          /\ (pc[m] = "getcreds" /\ pc'[m] = "idle") => result'[m] = errGetCreds
          /\ (result'[m] # result[m] /\ result'[m] \in ConnectErrors) =>
                /\ pc[m] = (IF result'[m] = errTrackPCUsage THEN "connect"
                            ELSE IF result'[m] = errGetPC THEN "getpc" ELSE "getcreds")
                /\ pc'[m] = "idle"
                /\ ~handle'[m].set
                /\ calls'[m] = <<>>
                /\ data'[m] = ""
      ]_vars

C15_Witness ==
    \E m \in MR :
        /\ PassDone(m) /\ result[m] = errGetPC
        /\ out[m] = <<"MDL Connect">>
        /\ ~handle[m].set /\ data[m] = "" /\ calls[m] = <<>>

\* the text line holds the text c
Contains(line, c) ==
    \E i \in 1..Len(line) :
        i + Len(c) - 1 <= Len(line) /\ SubSeq(line, i, i + Len(c) - 1) = c

\* C16: no line a pass prints holds the credential bytes, so the output of two
\* runs that differ only in the credentials is the same.
C16_NoCredentialInOutput ==
    \A m \in MR : \A i \in DOMAIN out[m] : \A c \in Creds : ~Contains(out[m][i], c)

\* C17: with every call succeeding and nothing else changing the external
\* system, a finished pass leaves the test case present and has run exactly one
\* list command; a pass that began with the test case absent has run one
\* create, a pass that began with it present has run no create and no delete;
\* and a test case once present stays.
C17_ConvergesAndStays ==
    [][/\ remote \subseteq remote'
       /\ \A m \in MR :
            PassDone(m)' =>
                /\ KeyOf(m) \in remote'
                /\ result'[m] = "ok"
                /\ Cardinality({i \in DOMAIN calls'[m] : IsList(calls'[m][i])}) = 1
                /\ Cardinality({i \in DOMAIN calls'[m] : IsDelete(calls'[m][i])}) = 0
                /\ Cardinality({i \in DOMAIN calls'[m] : IsCreate(calls'[m][i])})
                       = (IF calls'[m][1].present THEN 0 ELSE 1)
      ]_vars

C17_Witness ==
    \E m \in MR :
        /\ PassDone(m) /\ result[m] = "ok"
        /\ Len(calls[m]) = 2
        /\ calls[m][1].present /\ IsList(calls[m][2]) /\ calls[m][2].ok
        /\ obs[m].ResourceExists
        /\ ~deleted[m]
        /\ AllOk

\* C18: in a pass for a TestCase marked for removal whose test case is present
\* when it is listed, Observe reports exists=true (so Delete is called and the
\* TestCase object is not released).
C18_MarkedAndPresentObservedPresent ==
    \A m \in MR :
        (/\ deleted[m]
         /\ pc[m] \in {"observed", "gone"}
         /\ \E i \in Idx(m) : IsList(calls[m][i]) /\ calls[m][i].present)
            => obs[m].ResourceExists /\ pc[m] # "gone"

====
